---- MODULE Spec2Model ----
(***************************************************************************)
(* The GeodesicNetwork component of sphere-scroll-scape, in its three      *)
(* source versions:                                                        *)
(*   "flat"   src/src/components/GeodesicNetwork.tsx (flat triangle fans)  *)
(*   "curved" src/unnamed/part_000, lines 1-273 (subdivided sphere patches)*)
(*   "simple" src/unnamed/part_000, lines 276-390 (random points, lines)   *)
(*                                                                         *)
(* Numbers.  Coordinates are fixed-point integers.  A direction is a unit  *)
(* vector scaled by UnitScale; the radius prop is counted in units of the  *)
(* default radius (1.5), so a position is radius * direction.  A geometry  *)
(* buffer (the number[] handed to Float32BufferAttribute) is the sequence  *)
(* of its push groups: each entry records what was pushed and how many     *)
(* floats the pushes appended.                                             *)
(***************************************************************************)
EXTENDS Integers, Sequences, FiniteSets, TLC

VARIABLES
    variant,      \* which source version of the component is mounted
    mounted,      \* whether the component has rendered
    radius,       \* the radius prop of the last render
    memoDeps,     \* the dependency list useMemo stored with the network
    network,      \* the value of useMemo: points, line buffers, patches
    generations,  \* how many times the useMemo factory has run
    renders,      \* how many re-renders followed the mount
    frames,       \* how many frame callbacks have run
    refs,         \* ref.current of each group: "null" or "group"
    rotationY,    \* rotation.y of each group, in thousandths of a radian
    curveArgs,    \* arguments of the last generateGeodesicCurve call traced
    curvePoints   \* what that call returned

vars == <<variant, mounted, radius, memoDeps, network, generations, renders,
          frames, refs, rotationY, curveArgs, curvePoints>>

lifecycleVars == <<variant, mounted, radius, memoDeps, network, generations,
                   renders, frames, refs, rotationY>>

curveVars == <<curveArgs, curvePoints>>

----------------------------------------------------------------------------
(* Bounds of the model *)

\* the radius prop takes the values DefaultRadius .. DefaultRadius+NumRadii-1
NumRadii == 2
\* the per-point Math.random() draws repeat with this period along the points
DrawPeriod == 2
\* the random point sets of the simple version are numbered 0 .. MaxSeed
MaxSeed == 3
\* re-renders and frame callbacks explored after the mount
MaxRenders == 2
MaxFrames == 2
\* generateGeodesicCurve is traced for segment counts 1 .. MaxSegments
MaxSegments == 10
\* and for endpoints among the first NumCurveDirections lattice directions
NumCurveDirections == 8

----------------------------------------------------------------------------
(* Program constants *)

DefaultRadius == 1
numPoints == 12
MinConnections == 3
ConnectionSpread == 3
SimpleConnections == 3
CurveSegments == 15
PatchSegments == 16
FaceMinNeighbors == 3
UnitScale == 3000
FixShift == 10000

Variants == {"flat", "curved", "simple"}
Radii == DefaultRadius .. (DefaultRadius + NumRadii - 1)

----------------------------------------------------------------------------
(* THREE.Vector3 *)

Dot(a, b) == a[1] * b[1] + a[2] * b[2] + a[3] * b[3]

Cross(a, b) == << a[2] * b[3] - a[3] * b[2],
                  a[3] * b[1] - a[1] * b[3],
                  a[1] * b[2] - a[2] * b[1] >>

Sub(a, b) == << a[1] - b[1], a[2] - b[2], a[3] - b[3] >>

Add(a, b) == << a[1] + b[1], a[2] + b[2], a[3] + b[3] >>

multiplyScalar(v, s) == << v[1] * s, v[2] * s, v[3] * s >>

RECURSIVE SqrtSearch(_, _, _)
SqrtSearch(n, lo, hi) ==
    IF lo >= hi THEN lo
    ELSE LET mid == (lo + hi + 1) \div 2
         IN  IF mid * mid <= n THEN SqrtSearch(n, mid, hi)
                               ELSE SqrtSearch(n, lo, mid - 1)

\* Math.sqrt, rounded down
Sqrt(n) == SqrtSearch(n, 0, 46340)

length(v) == Sqrt(Dot(v, v))

\* Vector3.distanceTo.  The model keeps the square of the distance: it is
\* only ever compared with other distances, and the square root is monotone.
distanceTo(a, b) == Dot(Sub(a, b), Sub(a, b))

\* Vector3.normalize().multiplyScalar(r): divideScalar(length() || 1), then
\* the scaling back to the sphere of radius r
Project(v, r) ==
    LET len == IF length(v) = 0 THEN 1 ELSE length(v)
    IN  << (v[1] * r * UnitScale) \div len,
           (v[2] * r * UnitScale) \div len,
           (v[3] * r * UnitScale) \div len >>

----------------------------------------------------------------------------
(* Point sampling *)

\* radius * (sin(phi) cos(theta), sin(phi) sin(theta), cos(phi)) of the
\* Fibonacci spiral for i = 0 .. 11, numPoints = 12: theta = 2 pi i / golden
\* ratio, phi = acos(1 - 2 (i + 0.5) / 12), as directions scaled by UnitScale
FibonacciDirection ==
  << <<1199, 0, 2750>>,      <<-1463, -1340, 2250>>, <<213, 2427, 1750>>,
     <<1659, -2164, 1250>>,  <<-2860, 506, 750>>,    <<2522, 1605, 250>>,
     <<-776, -2887, -250>>,  <<-1339, 2578, -750>>,  <<2562, -936, -1250>>,
     <<-2252, -930, -1750>>, <<841, 1797, -2250>>,   <<359, -1144, -2750>> >>

\* Directions a random (theta, phi) draw of the simple version can give: the
\* integer points of the sphere of radius 3, scaled to UnitScale.  Entries
\* 2k-1 and 2k are antipodal.
LatticeDirection ==
  << <<3000, 0, 0>>, <<-3000, 0, 0>>, <<0, 3000, 0>>,
     <<0, -3000, 0>>, <<0, 0, 3000>>, <<0, 0, -3000>>,
     <<1000, 2000, 2000>>, <<-1000, -2000, -2000>>, <<1000, 2000, -2000>>,
     <<-1000, -2000, 2000>>, <<1000, -2000, 2000>>, <<-1000, 2000, -2000>>,
     <<1000, -2000, -2000>>, <<-1000, 2000, 2000>>, <<2000, 1000, 2000>>,
     <<-2000, -1000, -2000>>, <<2000, 1000, -2000>>, <<-2000, -1000, 2000>>,
     <<2000, -1000, 2000>>, <<-2000, 1000, -2000>>, <<2000, -1000, -2000>>,
     <<-2000, 1000, 2000>>, <<2000, 2000, 1000>>, <<-2000, -2000, -1000>>,
     <<2000, 2000, -1000>>, <<-2000, -2000, 1000>>, <<2000, -2000, 1000>>,
     <<-2000, 2000, -1000>>, <<2000, -2000, -1000>>, <<-2000, 2000, 1000>> >>

PointIndex == 0 .. (numPoints - 1)

\* new THREE.Color().setHSL(h, 0.7, 0.6): the colour is kept as its hue, in
\* numPoints-ths of the colour circle
setHSL(h) == [hue |-> h]

generateFibonacciSphere(n, r) ==
    [i \in 0 .. (n - 1) |->
        [position  |-> multiplyScalar(FibonacciDirection[i + 1], r),
         neighbors |-> << >>,
         color     |-> setHSL(i)]]

\* The random points of the simple version.  The draws of Math.random() are
\* an input: seed s picks the direction and the hue of point i.
RandomDirection(s, i) ==
    LatticeDirection[((s + i * (2 * s + 1)) % Len(LatticeDirection)) + 1]

generateRandomPoints(n, r, s) ==
    [i \in 0 .. (n - 1) |->
        [position  |-> multiplyScalar(RandomDirection(s, i), r),
         neighbors |-> << >>,
         color     |-> setHSL((s + 5 * i) % numPoints)]]

----------------------------------------------------------------------------
(* Array.prototype.sort: stable, by a comparator given as Less(a, b), which
   stands for compare(a, b) < 0 *)

sort(s, Less(_, _)) ==
    LET RECURSIVE Insert(_, _)
        Insert(sorted, x) ==
            IF sorted = << >> THEN << x >>
            ELSE LET last == sorted[Len(sorted)]
                 IN  IF Less(x, last)
                     THEN Append(Insert(SubSeq(sorted, 1, Len(sorted) - 1), x), last)
                     ELSE Append(sorted, x)
        RECURSIVE Sorted(_)
        Sorted(n) == IF n = 0 THEN << >> ELSE Insert(Sorted(n - 1), s[n])
    IN  Sorted(Len(s))

\* Array.prototype.slice(0, n)
slice(s, n) == SubSeq(s, 1, IF n < Len(s) THEN n ELSE Len(s))

\* Array.prototype.filter
filter(s, Keep(_)) == SelectSeq(s, Keep)

----------------------------------------------------------------------------
(* Neighbour selection *)

\* distances with a comparator that also reports equal distances as out of
\* order, which reverses every tie
distancesTiesReversed(points, i) ==
    LET all == [k \in 1 .. numPoints |->
                   [index    |-> k - 1,
                    distance |-> distanceTo(points[i].position,
                                            points[k - 1].position)]]
        notSelf(d) == d.index # i
        byDistance(a, b) == a.distance - b.distance <= 0
    IN  sort(filter(all, notSelf), byDistance)

\* points.map((otherPoint, j) => ({index: j, distance: ...}))
\*       .filter(d => d.index !== i).sort((a, b) => a.distance - b.distance)
distances(points, i) ==
    LET all == [k \in 1 .. numPoints |->
                   [index    |-> k - 1,
                    distance |-> distanceTo(points[i].position,
                                            points[k - 1].position)]]
        notSelf(d) == d.index # i
        byDistance(a, b) == a.distance - b.distance < 0
    IN  sort(filter(all, notSelf), byDistance)

\* numConnections drawing from 2, 3 or 4
numConnectionsBelow(draw) == MinConnections + draw - 1

\* numConnections rounding the draw up instead of down
numConnectionsRoundedUp(draw) == MinConnections + draw + 1

\* 3 + Math.floor(Math.random() * 3), the draw given as floor(random * 3)
numConnections(draw) == MinConnections + draw

\* distances.slice(0, n).map(d => d.index)
nearest(points, i, n) ==
    LET d == slice(distances(points, i), n)
    IN  [k \in 1 .. Len(d) |-> d[k].index]

\* points.forEach((point, i) => { ... point.neighbors = ... })
withNeighbors(points, count) ==
    [i \in PointIndex |->
        [points[i] EXCEPT !.neighbors = nearest(points, i, count[i])]]

----------------------------------------------------------------------------
(* generateGeodesicCurve.  Math.sin and the slerp weights are evaluated
   symbolically, exactly where IEEE arithmetic is exact:
     angle     "zero" (acos(1) = 0), "pi" (acos(-1) = Math.PI), "between"
     Math.sin  "0" only of 0: Math.sin(Math.PI) is 1.2246e-16, not 0
     weight    "1" (x / x), "0" (0 / x), "w" (any other quotient),
               "NaN" (0 / 0)
   A curve point is the vector itself where the weights are 0 and 1, and
   otherwise a record naming the arc sample it is. *)

\* Vector3.angleTo: Math.acos(clamp(dot / sqrt(lengthSq * lengthSq), -1, 1))
angleTo(a, b) ==
    IF Cross(a, b) = << 0, 0, 0 >> /\ Dot(a, b) > 0 THEN "zero"
    ELSE IF Cross(a, b) = << 0, 0, 0 >> /\ Dot(a, b) < 0 THEN "pi"
    ELSE "between"

\* Math.sin((num / den) * angle)
sinOf(angle, num, den) ==
    IF angle = "zero" \/ num = 0 THEN "0"
    ELSE IF num = den THEN "sinAngle"
    ELSE "sin"

\* x / sinAngle
quotient(x, sinAngle) ==
    IF sinAngle = "0" THEN "NaN"
    ELSE IF x = "0" THEN "0"
    ELSE IF x = sinAngle THEN "1"
    ELSE "w"

Vector(v) == [kind |-> "vector", v |-> v]

\* point1.clone().multiplyScalar(a).add(point2.clone().multiplyScalar(b)),
\* then normalize().multiplyScalar(radius)
interpolated(point1, point2, a, b, angle, i, segments, r) ==
    IF a = "NaN" \/ b = "NaN" THEN [kind |-> "NaN"]
    ELSE IF a = "1" /\ b = "0" THEN Vector(Project(point1, r))
    ELSE IF a = "0" /\ b = "1" THEN Vector(Project(point2, r))
    ELSE [kind |-> IF angle = "pi" THEN "noise" ELSE "arc",
          from |-> point1, to |-> point2, step |-> i, of |-> segments]

curveSample(point1, point2, i, segments, r) ==
    LET angle    == angleTo(point1, point2)
        sinAngle == sinOf(angle, 1, 1)
    IN  IF sinAngle = "0"
        THEN Vector(point1)
        ELSE LET a == quotient(sinOf(angle, segments - i, segments), sinAngle)
                 b == quotient(sinOf(angle, i, segments), sinAngle)
             IN  interpolated(point1, point2, a, b, angle, i, segments, r)

\* generateGeodesicCurve with the loop stopping at i < segments
generateGeodesicCurveShort(point1, point2, segments, r) ==
    [k \in 1 .. segments |->
        curveSample(point1, point2, k - 1, segments, r)]

\* for (let i = 0; i <= segments; i++) points.push(...)
generateGeodesicCurve(point1, point2, segments, r) ==
    [k \in 1 .. (segments + 1) |->
        curveSample(point1, point2, k - 1, segments, r)]

----------------------------------------------------------------------------
(* Geometry buffers *)

\* what one push call appends
pushXYZ == << "x", "y", "z" >>
pushRGB == << "r", "g", "b" >>
pushUV  == << "u1", "v1", "u2", "v2", "u3", "v3" >>

Chunk(what, count) == [what |-> what, count |-> count]

RECURSIVE FloatCount(_)
FloatCount(buffer) ==
    IF buffer = << >> THEN 0
    ELSE buffer[Len(buffer)].count + FloatCount(SubSeq(buffer, 1, Len(buffer) - 1))

RECURSIVE Concat(_)
Concat(seqs) ==
    IF seqs = << >> THEN << >>
    ELSE Concat(SubSeq(seqs, 1, Len(seqs) - 1)) \o seqs[Len(seqs)]

----------------------------------------------------------------------------
(* createSphericalPatch (curved version) *)

\* the (u, v) cells the two loops visit and the guard w1, w2, w3 >= 0 lets
\* through, the weights counted in PatchSegments-ths
patchCells ==
    { c \in (0 .. (PatchSegments - 1)) \X (0 .. (PatchSegments - 1)) :
        /\ c[2] < PatchSegments - c[1]
        /\ PatchSegments - c[1] - c[2] >= 0
        /\ PatchSegments - (c[1] + 1) - c[2] >= 0
        /\ PatchSegments - c[1] - (c[2] + 1) >= 0 }

\* Math.atan2(pos.clone().cross(centerPoint).length(), pos.clone().dot(centerPoint)),
\* kept as the pair (y, x) it is the angle of, rescaled by FixShift
angleKey(pos, centerPoint) ==
    LET c == Cross(pos, centerPoint)
        s == << c[1] \div FixShift, c[2] \div FixShift, c[3] \div FixShift >>
    IN  [y |-> length(s), x |-> Dot(pos, centerPoint) \div FixShift]

\* angleLess with the comparator's operands exchanged: b.angle - a.angle < 0
angleLessDescending(a, b) ==
    IF a.y = 0 /\ b.y = 0 THEN b.x > 0 /\ a.x < 0
    ELSE b.x * a.y - b.y * a.x > 0

\* a.angle - b.angle < 0, for angles in [0, pi]
angleLess(a, b) ==
    IF a.y = 0 /\ b.y = 0 THEN a.x > 0 /\ b.x < 0
    ELSE a.x * b.y - a.y * b.x > 0

sortedNeighbors(centerPoint, neighborPoints) ==
    LET keyed == [k \in 1 .. Len(neighborPoints) |->
                    [position |-> neighborPoints[k],
                     angle    |-> angleKey(neighborPoints[k], centerPoint)]]
        byAngle(a, b) == angleLess(a.angle, b.angle)
        sorted == sort(keyed, byAngle)
    IN  [k \in 1 .. Len(sorted) |-> sorted[k].position]

\* cellColors with the colour loop running k < 2
cellColorsTwice == pushRGB \o pushRGB

\* the floats one (u, v) cell appends to vertices, colors and uvs
cellVertices == pushXYZ \o pushXYZ \o pushXYZ
cellColors == pushRGB \o pushRGB \o pushRGB
cellUvs == pushUV

createSphericalPatch(centerPoint, neighborPoints, color) ==
    LET sorted == sortedNeighbors(centerPoint, neighborPoints)
        n      == Len(sorted)
        tri(i) == [center    |-> centerPoint,
                   neighbor1 |-> sorted[i],
                   neighbor2 |-> sorted[(i % n) + 1]]
        cells  == Cardinality(patchCells)
    IN  [position |-> [i \in 1 .. n |-> Chunk(tri(i), cells * Len(cellVertices))],
         color    |-> [i \in 1 .. n |-> Chunk(color, cells * Len(cellColors))],
         uv       |-> [i \in 1 .. n |-> Chunk(tri(i), cells * Len(cellUvs))]]

----------------------------------------------------------------------------
(* The triangle fan of the flat version *)

\* faceTriangle with neighbor2 pushed before neighbor1
faceTriangleSwapped(p, n1, n2) == p \o n2 \o n1

\* faceVertices.push(point, neighbor1, neighbor2 coordinates)
faceTriangle(p, n1, n2) == p \o n1 \o n2

\* for (let k = 0; k < 3; k++) faceColors.push(r, g, b)
faceTriangleColors == pushRGB \o pushRGB \o pushRGB

createFace(points, i) ==
    LET point == points[i]
        n     == Len(point.neighbors)
        tri(j) == faceTriangle(point.position,
                               points[point.neighbors[j]].position,
                               points[point.neighbors[(j % n) + 1]].position)
    IN  [position |-> [j \in 1 .. n |-> Chunk(tri(j), Len(tri(j)))],
         color    |-> [j \in 1 .. n |->
                          Chunk(point.color, Len(faceTriangleColors))]]

----------------------------------------------------------------------------
(* Network assembly: the useMemo factory *)

\* hasFace with a strict comparison
hasFaceStrict(point) == Len(point.neighbors) > FaceMinNeighbors

\* if (point.neighbors.length >= 3)
hasFace(point) == Len(point.neighbors) >= FaceMinNeighbors

\* the faceGeometries / patchGeometries array; "of" records the point a
\* patch was built for
patchGeometries(version, points) ==
    LET indices == [k \in 1 .. numPoints |-> k - 1]
        guarded(i) == hasFace(points[i])
        built == SelectSeq(indices, guarded)
        neighborPositions(i) ==
            [k \in 1 .. Len(points[i].neighbors) |->
                points[points[i].neighbors[k]].position]
        geometry(i) ==
            IF version = "flat"
            THEN createFace(points, i)
            ELSE createSphericalPatch(points[i].position, neighborPositions(i),
                                      points[i].color)
    IN  IF version = "simple" THEN << >>
        ELSE [k \in 1 .. Len(built) |->
                [geometry |-> geometry(built[k]),
                 color    |-> points[built[k]].color,
                 of       |-> built[k]]]

\* if (i < neighborIndex): avoid duplicate lines by only drawing from lower
\* to higher index
drawsLine(i, neighborIndex) == i < neighborIndex

\* the floats one segment appends to linePositions and to lineColors
segmentPositions == pushXYZ \o pushXYZ
segmentColors == pushRGB \o pushRGB

\* how many segments the line from point i to its neighbour appends: one per
\* consecutive pair of curve points, or the single straight segment of the
\* simple version
lineSegments(version, points, i, neighborIndex, r) ==
    IF version = "simple" THEN 1
    ELSE Len(generateGeodesicCurve(points[i].position,
                                   points[neighborIndex].position,
                                   CurveSegments, r)) - 1

\* points.forEach((point, i) => point.neighbors.forEach(neighborIndex => ...))
lineChunks(version, points, r, push) ==
    LET drawn(i) ==
            LET keep(neighborIndex) == drawsLine(i, neighborIndex)
            IN  SelectSeq(points[i].neighbors, keep)
        ofPoint(i) ==
            [k \in 1 .. Len(drawn(i)) |->
                Chunk([from |-> i, to |-> drawn(i)[k]],
                      lineSegments(version, points, i, drawn(i)[k], r) * Len(push))]
    IN  Concat([k \in 1 .. numPoints |-> ofPoint(k - 1)])

\* The inputs one run of the factory draws from Math.random(): per point
\* floor(random * 3) (flat and curved versions), or the seed of the random
\* points (simple version)
DrawPattern == [0 .. (DrawPeriod - 1) -> 0 .. (ConnectionSpread - 1)]

RandomInputs(version) ==
    IF version = "simple"
    THEN { [seed |-> s, draw |-> [k \in 0 .. (DrawPeriod - 1) |-> 0]] :
             s \in 0 .. MaxSeed }
    ELSE { [seed |-> 0, draw |-> d] : d \in DrawPattern }

connections(version, random) ==
    [i \in PointIndex |->
        IF version = "simple" THEN SimpleConnections
        ELSE numConnections(random.draw[i % DrawPeriod])]

generateNetwork(version, r, random) ==
    LET sampled == IF version = "simple"
                   THEN generateRandomPoints(numPoints, r, random.seed)
                   ELSE generateFibonacciSphere(numPoints, r)
        points  == withNeighbors(sampled, connections(version, random))
    IN  [points        |-> points,
         linePositions |-> lineChunks(version, points, r, segmentPositions),
         lineColors    |-> lineChunks(version, points, r, segmentColors),
         patches       |-> patchGeometries(version, points)]

\* every network a run of the factory can produce, tabulated
networks ==
    [version \in Variants, r \in Radii,
     random \in RandomInputs("simple") \cup RandomInputs("flat") |->
        generateNetwork(version, r, random)]

NoNetwork == [points |-> << >>, linePositions |-> << >>,
              lineColors |-> << >>, patches |-> << >>]

----------------------------------------------------------------------------
(* The component: render, commit and frame loop *)

\* the groups of the returned JSX, in document order
groups(version) ==
    IF version = "simple" THEN << "points", "lines" >>
    ELSE << "faces", "points", "lines" >>

GroupNames == { "faces", "points", "lines" }

\* rotationStep with another step for the lines group
rotationStepUneven(group) ==
    CASE group = "points" -> 2
      [] group = "lines"  -> 3
      [] group = "faces"  -> 2

\* rotation.y += 0.002, per group, in thousandths of a radian
rotationStep(group) ==
    CASE group = "points" -> 2
      [] group = "lines"  -> 2
      [] group = "faces"  -> 2

\* depsChanged for an empty dependency list
depsNeverChange(prev, next) == FALSE

\* useMemo's comparison of the dependency list [radius] with the stored one
depsChanged(prev, next) == prev # next

Init ==
    /\ variant \in Variants
    /\ mounted = FALSE
    /\ radius = DefaultRadius
    /\ memoDeps = << >>
    /\ network = NoNetwork
    /\ generations = 0
    /\ renders = 0
    /\ frames = 0
    /\ refs = [g \in GroupNames |-> "null"]
    /\ rotationY = [g \in GroupNames |-> 0]
    /\ curveArgs = << >>
    /\ curvePoints = << >>

\* the first render: useMemo runs the factory
Mount(r, random) ==
    /\ ~mounted
    /\ mounted' = TRUE
    /\ radius' = r
    /\ memoDeps' = << r >>
    /\ network' = networks[variant, r, random]
    /\ generations' = generations + 1
    /\ UNCHANGED << variant, renders, frames, refs, rotationY, curveVars >>

\* the commit attaches the group refs, in document order
AttachRef(group) ==
    /\ mounted
    /\ refs[group] = "null"
    /\ \E k \in 1 .. Len(groups(variant)) :
          /\ groups(variant)[k] = group
          /\ \A j \in 1 .. (k - 1) : refs[groups(variant)[j]] # "null"
    /\ refs' = [refs EXCEPT ![group] = "group"]
    /\ UNCHANGED << variant, mounted, radius, memoDeps, network, generations,
                    renders, frames, rotationY, curveVars >>

\* a later render with radius prop r: useMemo reruns the factory only when
\* the dependency list changed
Rerender(r, random) ==
    /\ mounted
    /\ renders < MaxRenders
    /\ renders' = renders + 1
    /\ radius' = r
    /\ IF depsChanged(memoDeps, << r >>)
       THEN /\ network' = networks[variant, r, random]
            /\ memoDeps' = << r >>
            /\ generations' = generations + 1
       ELSE UNCHANGED << network, memoDeps, generations >>
    /\ UNCHANGED << variant, mounted, frames, refs, rotationY, curveVars >>

\* the useFrame callback
Frame ==
    /\ mounted
    /\ frames < MaxFrames
    /\ frames' = frames + 1
    /\ IF \A k \in 1 .. Len(groups(variant)) : refs[groups(variant)[k]] # "null"
       THEN rotationY' =
              [g \in GroupNames |->
                 IF \E k \in 1 .. Len(groups(variant)) : groups(variant)[k] = g
                 THEN rotationY[g] + rotationStep(g)
                 ELSE rotationY[g]]
       ELSE UNCHANGED rotationY
    /\ UNCHANGED << variant, mounted, radius, memoDeps, network, generations,
                    renders, refs, curveVars >>

Next ==
    \/ \E r \in Radii : \E random \in RandomInputs(variant) : Mount(r, random)
    \/ \E g \in GroupNames : AttachRef(g)
    \/ \E r \in Radii : \E random \in RandomInputs(variant) : Rerender(r, random)
    \/ Frame

Spec == Init /\ [][Next]_vars

----------------------------------------------------------------------------
(* Properties of the neighbour graph *)

Range(s) == { s[k] : k \in 1 .. Len(s) }

neighborsOf(i) == network.points[i].neighbors

distanceBetween(i, j) ==
    distanceTo(network.points[i].position, network.points[j].position)

\* C1: after the neighbour-graph step no neighbour list contains its own
\* point, and its length is within [3, 5] where the count is drawn per point
\* and exactly 3 in the simple version, whatever the draws
C1_NeighborBounds ==
    mounted =>
        \A i \in PointIndex :
            /\ i \notin Range(neighborsOf(i))
            /\ Range(neighborsOf(i)) \subseteq PointIndex
            /\ IF variant = "simple"
               THEN Len(neighborsOf(i)) = 3
               ELSE Len(neighborsOf(i)) \in 3 .. 5

\* a network in which the draws gave one point 3 and another more than 3
\* neighbours
C1_Witness ==
    /\ mounted
    /\ variant = "flat"
    /\ \E i, j \in PointIndex :
          /\ Len(neighborsOf(i)) = 3
          /\ Len(neighborsOf(j)) > 3

\* C8: every neighbour list is the first K entries of the other points in
\* ascending distance, ties in index order: a listed point is at least as
\* close as an unlisted one, the list is in non-decreasing distance, and of
\* two equidistant candidates the lower index comes first
C8_NearestFirst ==
    mounted =>
        \A i \in PointIndex :
            LET n == neighborsOf(i)
                unlisted == (PointIndex \ {i}) \ Range(n)
            IN  /\ \A k \in 1 .. Len(n) : \A j \in unlisted :
                      \/ distanceBetween(i, n[k]) < distanceBetween(i, j)
                      \/ /\ distanceBetween(i, n[k]) = distanceBetween(i, j)
                         /\ n[k] < j
                /\ \A k \in 1 .. (Len(n) - 1) :
                      \/ distanceBetween(i, n[k]) < distanceBetween(i, n[k + 1])
                      \/ /\ distanceBetween(i, n[k]) = distanceBetween(i, n[k + 1])
                         /\ n[k] < n[k + 1]

\* a network with a tie inside a neighbour list and a tie between a listed
\* and an unlisted point
C8_Witness ==
    /\ mounted
    /\ \E i \in PointIndex :
          LET n == neighborsOf(i)
          IN  /\ \E k \in 1 .. (Len(n) - 1) :
                    distanceBetween(i, n[k]) = distanceBetween(i, n[k + 1])
              /\ \E j \in (PointIndex \ {i}) \ Range(n) :
                    distanceBetween(i, n[Len(n)]) = distanceBetween(i, j)

----------------------------------------------------------------------------
(* Properties of edge assembly *)

\* the lines traced between points i and j, in either direction
linesBetween(i, j) ==
    { k \in 1 .. Len(network.linePositions) :
        LET e == network.linePositions[k].what
        IN  { e.from, e.to } = { i, j } }

lists(i, j) == j \in Range(neighborsOf(i))

\* C2: every pair of points of which at least one lists the other is traced
\* exactly once, and a pair neither lists is never traced
C2_EveryListedPairTracedOnce ==
    mounted =>
        \A i, j \in PointIndex :
            i < j =>
                Cardinality(linesBetween(i, j))
                    = IF lists(i, j) \/ lists(j, i) THEN 1 ELSE 0

----------------------------------------------------------------------------
(* Properties of the patches and buffers *)

buildsPatches == variant \in { "flat", "curved" }

patchesOf(i) ==
    { k \in 1 .. Len(network.patches) : network.patches[k].of = i }

\* C7: in the versions that build patches, a point gets a patch if and only
\* if it has at least 3 neighbours (and then exactly one), and every patch
\* has a non-empty triangle buffer
C7_PatchIffThreeNeighbors ==
    (mounted /\ buildsPatches) =>
        /\ \A i \in PointIndex :
              Cardinality(patchesOf(i))
                  = IF Len(neighborsOf(i)) >= 3 THEN 1 ELSE 0
        /\ \A k \in 1 .. Len(network.patches) :
              /\ network.patches[k].of \in PointIndex
              /\ FloatCount(network.patches[k].geometry.position) > 0

\* a curved network in which a point with exactly 3 neighbours has its patch
C7_Witness ==
    /\ mounted
    /\ variant = "curved"
    /\ \E i \in PointIndex :
          /\ Len(neighborsOf(i)) = 3
          /\ patchesOf(i) # {}

\* the vertices a buffer of stride 3 holds
VertexCount(buffer) == FloatCount(buffer) \div 3

\* C10: every buffer of a generation pass is well-formed: patch positions a
\* multiple of 9 floats, line positions a multiple of 6, colours 3 floats
\* per position vertex, and UVs, where there are any, 2 floats per vertex
C10_BuffersWellFormed ==
    mounted =>
        /\ FloatCount(network.linePositions) % 6 = 0
        /\ FloatCount(network.lineColors)
              = 3 * VertexCount(network.linePositions)
        /\ \A k \in 1 .. Len(network.patches) :
              LET g == network.patches[k].geometry
              IN  /\ FloatCount(g.position) % 9 = 0
                  /\ FloatCount(g.color) = 3 * VertexCount(g.position)
                  /\ "uv" \in DOMAIN g =>
                        FloatCount(g.uv) = 2 * VertexCount(g.position)

\* a curved network with lines, patches, colours and UVs in its buffers
C10_Witness ==
    /\ mounted
    /\ variant = "curved"
    /\ FloatCount(network.linePositions) > 0
    /\ \E k \in 1 .. Len(network.patches) :
          /\ FloatCount(network.patches[k].geometry.position) > 0
          /\ FloatCount(network.patches[k].geometry.uv) > 0

----------------------------------------------------------------------------
(* Winding order of the curved patch *)

\* a position at a scale at which triple products fit the integers
Coarse(v) == << v[1] \div 100, v[2] \div 100, v[3] \div 100 >>

\* > 0 when b lies counter-clockwise of a around the axis c, by less than
\* half a turn
Orient(c, a, b) == Dot(Coarse(c), Cross(Coarse(a), Coarse(b)))

\* the parts of a and b tangent to the sphere at c point the same way
SameSide(c, a, b) ==
    LET cc == Coarse(c)  aa == Coarse(a)  bb == Coarse(b)
    IN  Dot(aa, bb) * Dot(cc, cc) - Dot(aa, cc) * Dot(bb, cc) > 0

\* the half turn, counted from the reference direction ref, that n lies in
HalfTurn(c, ref, n) ==
    IF Orient(c, ref, n) > 0 THEN 0
    ELSE IF Orient(c, ref, n) = 0 /\ SameSide(c, ref, n) THEN 0
    ELSE 1

\* the azimuth of a around c, counted from ref, is less than that of b
AzimuthLess(c, ref, a, b) ==
    \/ HalfTurn(c, ref, a) < HalfTurn(c, ref, b)
    \/ /\ HalfTurn(c, ref, a) = HalfTurn(c, ref, b)
       /\ Orient(c, a, b) > 0

\* the fan triangles of a patch go once around the centre: the azimuths of
\* their first neighbours only increase, or only decrease, along the fan
WindsAround(fan) ==
    LET c   == fan[1].what.center
        ref == fan[1].what.neighbor1
        at(k) == fan[k].what.neighbor1
    IN  \/ \A k \in 1 .. (Len(fan) - 1) : AzimuthLess(c, ref, at(k), at(k + 1))
        \/ \A k \in 2 .. (Len(fan) - 1) : AzimuthLess(c, ref, at(k + 1), at(k))

\* C9: in the curved version the sorted neighbours of every patch are in a
\* consistent winding order around the centre, consecutive ones adjacent in
\* angular order, so that the fan does not self-intersect
C9_SortedNeighborsWindAround ==
    (mounted /\ variant = "curved") =>
        \A k \in 1 .. Len(network.patches) :
            WindsAround(network.patches[k].geometry.position)

----------------------------------------------------------------------------
(* Properties of the component *)

\* C3: the network is generated at the mount, and after it a step
\* regenerates the network exactly when it changes the radius; the new
\* network is a fresh product of the factory for the new radius, and a step
\* that keeps the radius (a re-render, a ref attachment, a frame) keeps the
\* network as it is
C3_RegeneratedExactlyOnRadiusChange ==
    [][ /\ (~mounted /\ mounted') =>
              /\ generations' = 1
              /\ \E random \in RandomInputs(variant) :
                    network' = networks[variant, radius', random]
        /\ (mounted /\ radius' # radius) =>
              /\ generations' = generations + 1
              /\ \E random \in RandomInputs(variant) :
                    network' = networks[variant, radius', random]
        /\ (mounted /\ radius' = radius) =>
              /\ generations' = generations
              /\ network' = network ]_vars

\* a component that re-rendered twice, once with a new radius and once with
\* the same, and ran a frame
C3_Witness ==
    /\ mounted
    /\ renders = 2
    /\ generations = 2
    /\ frames >= 1

\* C4: the rotation angles of the groups of the mounted version are equal
\* in every state, whichever frames arrived before all refs were attached
C4_RotationsInSync ==
    \A j, k \in 1 .. Len(groups(variant)) :
        rotationY[groups(variant)[j]] = rotationY[groups(variant)[k]]

\* two frames ran, the first while a ref was still null (it changed
\* nothing), the second with all three groups attached
C4_Witness ==
    /\ variant = "flat"
    /\ frames = 2
    /\ \A g \in GroupNames : refs[g] = "group"
    /\ rotationY["faces"] = 2

----------------------------------------------------------------------------
(* generateGeodesicCurve as a function of its arguments *)

CurveDirections == { LatticeDirection[k] : k \in 1 .. NumCurveDirections }

InitCurve ==
    /\ variant = "flat"
    /\ mounted = FALSE
    /\ radius = DefaultRadius
    /\ memoDeps = << >>
    /\ network = NoNetwork
    /\ generations = 0
    /\ renders = 0
    /\ frames = 0
    /\ refs = [g \in GroupNames |-> "null"]
    /\ rotationY = [g \in GroupNames |-> 0]
    /\ curveArgs = << >>
    /\ curvePoints = << >>

\* one call, with both points on the sphere of radius r
TraceCurve(d1, d2, segments, r) ==
    /\ curveArgs' = [point1   |-> multiplyScalar(d1, r),
                     point2   |-> multiplyScalar(d2, r),
                     segments |-> segments,
                     radius   |-> r]
    /\ curvePoints' = generateGeodesicCurve(multiplyScalar(d1, r),
                                            multiplyScalar(d2, r), segments, r)
    /\ UNCHANGED lifecycleVars

NextCurve ==
    \E d1, d2 \in CurveDirections : \E segments \in 1 .. MaxSegments :
        \E r \in Radii : TraceCurve(d1, d2, segments, r)

SpecCurve == InitCurve /\ [][NextCurve]_vars

traced == curveArgs # << >>

Negated(v) == << -v[1], -v[2], -v[3] >>

\* C6: when point2 is point1 or its antipode, a call with 10 segments
\* returns 11 elements, every one equal to point1, none NaN
C6_DegenerateFallsBack ==
    ( /\ traced
      /\ curveArgs.segments = 10
      /\ \/ curveArgs.point2 = curveArgs.point1
         \/ curveArgs.point2 = Negated(curveArgs.point1) ) =>
        /\ Len(curvePoints) = 11
        /\ \A k \in 1 .. Len(curvePoints) :
              /\ curvePoints[k].kind # "NaN"
              /\ curvePoints[k] = Vector(curveArgs.point1)

----------------------------------------------------------------------------
(* Properties of the flat triangle fan *)

positionOf(i) == network.points[i].position

----------------------------------------------------------------------------
(* Properties of the neighbour order of the curved patches *)

\* the neighbour positions network assembly hands to createSphericalPatch
neighborPositionsOf(i) ==
    [k \in 1 .. Len(neighborsOf(i)) |-> positionOf(neighborsOf(i)[k])]

\* the sequence of first neighbours of the triangles of a patch, which is
\* the sorted neighbour sequence the fan loop ran over
fanOrder(g) == [j \in 1 .. Len(g.position) |-> g.position[j].what.neighbor1]

----------------------------------------------------------------------------
(* Properties of the patch array *)

\* C13: in the versions that build patches the guard lets every point
\* through in every generation pass: there are as many patches as points,
\* 12, and the k-th patch is the patch of the k-th point
C13_OnePatchPerPointInOrder ==
    (mounted /\ buildsPatches) =>
        /\ \A i \in PointIndex : hasFace(network.points[i])
        /\ Len(network.patches) = numPoints
        /\ Len(network.patches) = 12
        /\ \A k \in 1 .. Len(network.patches) :
              network.patches[k].of = k - 1

\* the second generation pass of a component, after a change of radius, with
\* points that got the minimum of 3 neighbours and points that got 5
C13_Witness ==
    /\ mounted
    /\ buildsPatches
    /\ generations = 2
    /\ radius # DefaultRadius
    /\ \E i, j \in PointIndex :
          /\ Len(neighborsOf(i)) = FaceMinNeighbors
          /\ Len(neighborsOf(j)) = 5
    /\ network.patches[numPoints].of = numPoints - 1

====
